---- MODULE Spec2Model ----
(***************************************************************************)
(* Model of beta.py: a Telegram bot that collects .txt files of phone      *)
(* numbers per user, normalises and deduplicates them, and writes .vcf     *)
(* contact-card files in batches.                                          *)
(*                                                                         *)
(* Strings that the code inspects character by character are sequences of  *)
(* one-character strings.  None (and the empty string, which the code      *)
(* treats the same way in "if n:") is the empty sequence.                  *)
(***************************************************************************)
EXTENDS Integers, Sequences, FiniteSets, TLC

(***************************************************************************)
(* Part 1: format_number                                                   *)
(***************************************************************************)

None == <<>>

Digits == {"0", "1", "2", "3", "4", "5", "6", "7", "8", "9"}

Whitespace == {" "}

IsDigit(c) == c \in Digits

\* s[i..] (1-based, like SubSeq but to the end)
From(s, i) == SubSeq(s, i, Len(s))

StartsWith(s, p) == Len(s) >= Len(p) /\ SubSeq(s, 1, Len(p)) = p

\* str.strip(): cut leading and trailing whitespace
RECURSIVE LStrip(_)
LStrip(s) == IF s # <<>> /\ Head(s) \in Whitespace THEN LStrip(Tail(s)) ELSE s

RECURSIVE RStrip(_)
RStrip(s) ==
    IF s # <<>> /\ s[Len(s)] \in Whitespace THEN RStrip(SubSeq(s, 1, Len(s) - 1)) ELSE s

Strip(s) == LStrip(RStrip(s))

\* length of the run of digits starting at s[i]
RECURSIVE DigitRun(_, _)
DigitRun(s, i) == IF i <= Len(s) /\ IsDigit(s[i]) THEN 1 + DigitRun(s, i + 1) ELSE 0

\* re.search(r"\+?\d{3,}", s): the leftmost match, greedy; None when there is none
RECURSIVE SearchToken(_, _)
SearchToken(s, i) ==
    IF i > Len(s) THEN None
    ELSE IF s[i] = "+" /\ DigitRun(s, i + 1) >= 3
         THEN SubSeq(s, i, i + DigitRun(s, i + 1))
    ELSE IF DigitRun(s, i) >= 3
         THEN SubSeq(s, i, i + DigitRun(s, i) - 1)
    ELSE SearchToken(s, i + 1)

default_cc == <<"+", "6", "2">>

min_len == 8

max_len == 15

\* lines 33-38: 00 -> +, leading 0 -> default country code, else + prepended
ConvertPrefix(token) ==
    IF StartsWith(token, <<"0", "0">>) THEN <<"+">> \o From(token, 3)
    ELSE IF StartsWith(token, <<"0">>) THEN default_cc \o From(token, 2)
    ELSE IF ~StartsWith(token, <<"+">>) THEN <<"+">> \o token
    ELSE token

\* re.sub(r"\D", "", s)
OnlyDigits(s) == SelectSeq(s, IsDigit)

\* A quantifier \d{lo,hi}; \d+ is \d{1,Unbounded}: a group never holds more
\* digits than a token that passed line 41
Unbounded == max_len

Q(lo, hi) == [lo |-> lo, hi |-> hi]

\* the pattern table, in the order of the dict literal
patterns ==
    << [code |-> <<"+", "6", "2">>,      groups |-> <<Q(3, 4), Q(1, Unbounded)>>],
       [code |-> <<"+", "8", "5", "2">>, groups |-> <<Q(4, 4), Q(4, 4)>>],
       [code |-> <<"+", "6", "0">>,      groups |-> <<Q(2, 3), Q(1, Unbounded)>>],
       [code |-> <<"+", "6", "5">>,      groups |-> <<Q(4, 4), Q(4, 4)>>],
       [code |-> <<"+", "9", "1">>,      groups |-> <<Q(5, 5), Q(5, 5)>>],
       [code |-> <<"+", "9", "2">>,      groups |-> <<Q(3, 4), Q(1, Unbounded)>>],
       [code |-> <<"+", "8", "8", "0">>, groups |-> <<Q(3, 4), Q(1, Unbounded)>>],
       [code |-> <<"+", "9", "6", "6">>, groups |-> <<Q(3, 3), Q(1, Unbounded)>>],
       [code |-> <<"+", "9", "7", "1">>, groups |-> <<Q(2, 3), Q(1, Unbounded)>>],
       [code |-> <<"+", "6", "3">>,      groups |-> <<Q(3, 3), Q(1, Unbounded)>>],
       [code |-> <<"+", "2", "3", "4">>, groups |-> <<Q(3, 3), Q(1, Unbounded)>>],
       [code |-> <<"+", "1">>,           groups |-> <<Q(3, 3), Q(3, 3), Q(4, 4)>> ] >>

RECURSIVE SumLo(_)
SumLo(qs) == IF qs = <<>> THEN 0 ELSE Head(qs).lo + SumLo(Tail(qs))

Min(a, b) == IF a < b THEN a ELSE b

\* re.match of a sequence of greedy digit groups against n digits (a prefix
\* match: digits past the last group are left unmatched).  The lengths of the
\* groups, or <<>> when there is no match.
RECURSIVE GroupLens(_, _)
GroupLens(qs, n) ==
    IF qs = <<>> THEN <<>>
    ELSE <<Min(Head(qs).hi, n - SumLo(Tail(qs)))>>
            \o GroupLens(Tail(qs), n - Min(Head(qs).hi, n - SumLo(Tail(qs))))

\* the groups of rest cut by lens, each preceded by a space
RECURSIVE JoinGroups(_, _)
JoinGroups(rest, lens) ==
    IF lens = <<>> THEN <<>>
    ELSE <<" ">> \o SubSeq(rest, 1, Head(lens)) \o JoinGroups(From(rest, Head(lens) + 1), Tail(lens))

\* lines 60-64 for the table entry whose code starts the token
ApplyPattern(p, token) ==
    LET rest == From(token, Len(p.code) + 1)
    IN  IF SumLo(p.groups) <= Len(rest)
        THEN p.code \o JoinGroups(rest, GroupLens(p.groups, Len(rest)))
        ELSE token

\* lines 58-64: the first table entry whose code is a prefix decides
RECURSIVE Segment(_, _)
Segment(token, i) ==
    IF i > Len(patterns) THEN token
    ELSE IF StartsWith(token, patterns[i].code) THEN ApplyPattern(patterns[i], token)
    ELSE Segment(token, i + 1)

\* the token after the prefix conversion, None when the line holds no token
ConvertedToken(raw) ==
    LET m == SearchToken(Strip(raw), 1)
    IN  IF m = None THEN None ELSE ConvertPrefix(m)

format_number(raw) ==
    LET token == ConvertedToken(raw)
        n == Len(OnlyDigits(token))
    IN  IF token = None THEN None
        ELSE IF ~(min_len <= n /\ n <= max_len) THEN None
        ELSE Segment(token, 1)

(***************************************************************************)
(* Part 2: strings, paths and the session directories                      *)
(***************************************************************************)

\* the characters the model uses, in code-point order (for sorted())
CharOrder ==
    <<" ", "+", "-", ".", "/", "0", "1", "2", "3", "4", "5", "6", "7", "8", "9",
      "A", "B", "D", "K", "T", "X",
      "a", "b", "c", "d", "f", "i", "k", "m", "n", "o", "p", "t", "u", "v", "x", "z">>

Ord(c) == CHOOSE i \in 1..Len(CharOrder) : CharOrder[i] = c

\* s < t for strings, as Python compares them
RECURSIVE StrLess(_, _)
StrLess(s, t) ==
    IF t = <<>> THEN FALSE
    ELSE IF s = <<>> THEN TRUE
    ELSE IF Head(s) = Head(t) THEN StrLess(Tail(s), Tail(t))
    ELSE Ord(Head(s)) < Ord(Head(t))

EndsWith(s, suf) ==
    Len(s) >= Len(suf) /\ SubSeq(s, Len(s) - Len(suf) + 1, Len(s)) = suf

\* str.lower() on the letters the model uses in upper case
LowerChar(c) ==
    CASE c = "A" -> "a" [] c = "B" -> "b" [] c = "D" -> "d" [] c = "K" -> "k"
      [] c = "T" -> "t" [] c = "X" -> "x" [] OTHER -> c

Lower(s) == [i \in 1..Len(s) |-> LowerChar(s[i])]

\* str(n) for n >= 0
RECURSIVE Str(_)
Str(n) == IF n < 10 THEN <<CharOrder[6 + n]>> ELSE Str(n \div 10) \o <<CharOrder[6 + (n % 10)]>>

\* s.zfill(w)
RECURSIVE ZFill(_, _)
ZFill(s, w) == IF Len(s) >= w THEN s ELSE ZFill(<<"0">> \o s, w)

\* int(s) of line 249: <<n>>, or <<>> for ValueError.  Signs, underscores and
\* non-ASCII digits are left out: the texts of the model hold none.
RECURSIVE DigitsValue(_, _)
DigitsValue(s, acc) ==
    IF s = <<>> THEN acc ELSE DigitsValue(Tail(s), 10 * acc + (Ord(Head(s)) - 6))

ParseInt(s) ==
    LET t == Strip(s)
    IN  IF t # <<>> /\ \A i \in 1..Len(t) : IsDigit(t[i]) THEN <<DigitsValue(t, 0)>> ELSE <<>>

\* a path string split at "/" into its components
RECURSIVE SplitPath(_, _)
SplitPath(s, cur) ==
    IF s = <<>> THEN <<cur>>
    ELSE IF Head(s) = "/" THEN <<cur>> \o SplitPath(Tail(s), <<>>)
    ELSE SplitPath(Tail(s), cur \o <<Head(s)>>)

Users == {"A", "B"}

\* the users who upload and answer; the others only send commands
Uploaders == {"A"}

\* line 22; the admin is also an ordinary user of the bot
ADMIN_IDS == {"B"}

Other(u) == CHOOSE v \in Users : v # u

IN_DIR == <<"i", "n">>

OUT_DIR == <<"o", "u", "t">>

\* Paths are sequences of components below SESSIONS_DIR, which always exists.
UserDir(u) == << <<u>> >>

InDir(u) == << <<u>>, IN_DIR >>

OutDir(u) == << <<u>>, OUT_DIR >>

IsDir(ds, p) == p = <<>> \/ p \in ds

Parent(p) == SubSeq(p, 1, Len(p) - 1)

\* What the operating system makes of dir / name: every component walked
\* through must be an existing directory, ".." steps to the parent.  A path that
\* climbs above SESSIONS_DIR is outside the model and counts as unresolvable.
RECURSIVE Walk(_, _, _)
Walk(ds, cur, comps) ==
    IF comps = <<>> THEN [ok |-> TRUE, path |-> cur]
    ELSE IF ~IsDir(ds, cur) THEN [ok |-> FALSE, path |-> <<>>]
    ELSE IF Head(comps) \in {<<>>, <<".">>} THEN Walk(ds, cur, Tail(comps))
    ELSE IF Head(comps) = <<".", ".">>
         THEN IF cur = <<>> THEN [ok |-> FALSE, path |-> <<>>]
              ELSE Walk(ds, Parent(cur), Tail(comps))
    ELSE Walk(ds, cur \o <<Head(comps)>>, Tail(comps))

\* dir / name, for pathlib: the path is only joined; the OS resolves it on use
Resolve(ds, dir, name) == Walk(ds, dir, SplitPath(name, <<>>))

IsPrefix(p, q) == Len(p) <= Len(q) /\ SubSeq(q, 1, Len(p)) = p

\* session_paths: mkdir(parents=True, exist_ok=True) of in and out
session_paths(ds, u) == ds \cup {UserDir(u), InDir(u), OutDir(u)}

\* clear_session: shutil.rmtree(user_dir, ignore_errors=True)
RmDirs(ds, u) == {d \in ds : ~IsPrefix(UserDir(u), d)}

RmFiles(fs, u) == [p \in {q \in DOMAIN fs : ~IsPrefix(UserDir(u), q)} |-> fs[p]]

\* the files of directory dir whose name ends in suf: dir.glob("*" + suf)
Glob(ds, fs, dir, suf) ==
    IF dir \notin ds THEN {}
    ELSE {p \in DOMAIN fs : Parent(p) = dir /\ EndsWith(p[Len(p)], suf)}

\* sorted() of a set of paths in one directory: by file name
RECURSIVE SortedPaths(_)
SortedPaths(ps) ==
    IF ps = {} THEN <<>>
    ELSE LET m == CHOOSE p \in ps : \A q \in ps \ {p} : StrLess(p[Len(p)], q[Len(q)])
         IN  <<m>> \o SortedPaths(ps \ {m})

list_txt_files(ds, fs, dir) == SortedPaths(Glob(ds, fs, dir, <<".", "t", "x", "t">>))

(***************************************************************************)
(* Part 3: planning and writing                                            *)
(***************************************************************************)

\* remove_duplicates: first occurrences, in order
RECURSIVE DedupFrom(_, _)
DedupFrom(numbers, seen) ==
    IF numbers = <<>> THEN <<>>
    ELSE IF Head(numbers) \in seen THEN DedupFrom(Tail(numbers), seen)
    ELSE <<Head(numbers)>> \o DedupFrom(Tail(numbers), seen \cup {Head(numbers)})

remove_duplicates(numbers) == DedupFrom(numbers, {})

\* lines 105-112 over the lines of all source files, in order
RECURSIVE AllLines(_, _)
AllLines(fs, paths) ==
    IF paths = <<>> THEN <<>> ELSE fs[Head(paths)].lines \o AllLines(fs, Tail(paths))

FormatAll(lines) == [i \in 1..Len(lines) |-> format_number(lines[i])]

IsNumber(n) == n # None

\* f"{base_file_name} {batch_idx_global}.vcf"
TargetName(base, idx) == base \o <<" ">> \o Str(idx) \o <<".", "v", "c", "f">>

\* lines 119-125: the loop over idx = 0, per_file, 2 * per_file, ... with its
\* counter batch_idx_global; each round appends the slice
\* all_numbers[idx:idx+per_file] and its target name
RECURSIVE BatchesFrom(_, _, _, _, _)
BatchesFrom(numbers, base, per_file, idx, batch_idx_global) ==
    IF idx >= Len(numbers) THEN <<>>
    ELSE <<[batch |-> SubSeq(numbers, idx + 1, Min(idx + per_file, Len(numbers))),
            target |-> TargetName(base, batch_idx_global + 1)]>>
         \o BatchesFrom(numbers, base, per_file, idx + per_file, batch_idx_global + 1)

\* the loop of lines 119-125 as it would be if it stopped before a short last
\* slice
BatchesFullOnly(numbers, base, per_file) ==
    BatchesFrom(SubSeq(numbers, 1, (Len(numbers) \div per_file) * per_file), base,
                per_file, 0, 0)

Batches(numbers, base, per_file) == BatchesFrom(numbers, base, per_file, 0, 0)

\* target_path.exists()
Exists(ds, fs, dir, name) ==
    LET r == Resolve(ds, dir, name)
    IN  r.ok /\ (r.path \in DOMAIN fs \/ IsDir(ds, r.path))

\* plan_outputs as it would be without the check of lines 100-101
plan_outputs_unchecked(ds, fs, src_folder, base_file_name, per_file, output_dir) ==
    LET txt_files == list_txt_files(ds, fs, src_folder)
        formatted == FormatAll(AllLines(fs, txt_files))
        all_numbers == remove_duplicates(SelectSeq(formatted, IsNumber))
        invalid_count == Len(formatted) - Len(SelectSeq(formatted, IsNumber))
    IN  [err |-> FALSE, plan |-> Batches(all_numbers, base_file_name, per_file),
         total |-> Len(all_numbers), conflicts |-> {}, invalid |-> invalid_count]

plan_outputs(ds, fs, src_folder, base_file_name, per_file, output_dir) ==
    LET txt_files == list_txt_files(ds, fs, src_folder)
        formatted == FormatAll(AllLines(fs, txt_files))
        all_numbers == remove_duplicates(SelectSeq(formatted, IsNumber))
        invalid_count == Len(formatted) - Len(SelectSeq(formatted, IsNumber))
        plan == Batches(all_numbers, base_file_name, per_file)
    IN  IF txt_files = <<>>
        THEN [err |-> TRUE, plan |-> <<>>, total |-> 0, conflicts |-> {}, invalid |-> 0]
        ELSE IF all_numbers = <<>>
        THEN [err |-> FALSE, plan |-> <<>>, total |-> 0, conflicts |-> {},
              invalid |-> invalid_count]
        ELSE [err |-> FALSE, plan |-> plan, total |-> Len(all_numbers),
              conflicts |-> {plan[b].target : b \in {c \in 1..Len(plan) :
                                 Exists(ds, fs, output_dir, plan[c].target)}},
              invalid |-> invalid_count]

\* the numbers of a plan
RECURSIVE NumbersOf(_)
NumbersOf(plan) == IF plan = <<>> THEN 0 ELSE Len(Head(plan).batch) + NumbersOf(Tail(plan))

\* the pairs of one batch as they would be if the counter of line 279 were
\* reset for every batch
PairsPerBatch(contact_name, batch, done, pad) ==
    [j \in 1..Len(batch) |->
        [fn |-> contact_name \o <<" ">> \o ZFill(Str(j), pad), tel |-> batch[j]]]

\* lines 282-286: the (fullname, number) pairs of one batch; done numbers were
\* labelled before it
Pairs(contact_name, batch, done, pad) ==
    [j \in 1..Len(batch) |->
        [fn |-> contact_name \o <<" ">> \o ZFill(Str(done + j), pad), tel |-> batch[j]]]

\* What a file holds: the lines of an uploaded text, or the records of a
\* contact-card file (the UID line, a fresh uuid4, is left out).
TextFile(lines) == [lines |-> lines, recs |-> <<>>]

CardFile(recs) == [lines |-> <<>>, recs |-> recs]

\* fs with path p holding c
Put(fs, p, c) == [q \in DOMAIN fs \cup {p} |-> IF q = p THEN c ELSE fs[q]]

Remove(fs, p) == [q \in DOMAIN fs \ {p} |-> fs[q]]

\* open(path, "w") can succeed: the parent is a directory, the path is none
CanCreate(ds, r) == r.ok /\ r.path # <<>> /\ IsDir(ds, Parent(r.path)) /\ r.path \notin ds

\* A point where storage fails (or the process is interrupted) during the writes
\* of a run: before temp file b is created, after k of its records, or at its
\* os.replace.
NoFail == [b |-> 0, stage |-> "none", k |-> 0]

MaxPerFile == 2

MaxBatches == 2

\* the failure points of any plan the model reaches
AllFailPoints ==
    {NoFail}
    \cup {[b |-> b, stage |-> st, k |-> 0] : b \in 1..MaxBatches, st \in {"open", "replace"}}
    \cup {[b |-> b, stage |-> "write", k |-> k] : b \in 1..MaxBatches, k \in 0..(MaxPerFile - 1)}

FailPoints(plan) ==
    {NoFail}
    \cup {[b |-> b, stage |-> st, k |-> 0] : b \in 1..Len(plan), st \in {"open", "replace"}}
    \cup UNION {{[b |-> b, stage |-> "write", k |-> k] : k \in 0..(Len(plan[b].batch) - 1)} :
                b \in 1..Len(plan)}

\* write_vcard_batch as it would be without the temp file: the records go
\* straight to the final path
write_vcard_direct(ds, fs, dir, name, pairs, stage, k) ==
    LET final == Resolve(ds, dir, name)
    IN  IF ~CanCreate(ds, final) \/ stage = "open"
        THEN [err |-> TRUE, files |-> fs]
        ELSE IF stage = "write"
        THEN [err |-> TRUE, files |-> Put(fs, final.path, CardFile(SubSeq(pairs, 1, k)))]
        ELSE [err |-> stage = "replace", files |-> Put(fs, final.path, CardFile(pairs))]

\* write_vcard_batch(dir / name, pairs), with the failure point of this call:
\* "none", "open", "write" (after k records) or "replace"
write_vcard_batch(ds, fs, dir, name, pairs, stage, k) ==
    LET temp == Resolve(ds, dir, name \o <<".", "t", "m", "p">>)
        final == Resolve(ds, dir, name)
    IN  IF ~CanCreate(ds, temp) \/ stage = "open"
        THEN [err |-> TRUE, files |-> fs]
        ELSE IF stage = "write"
        THEN [err |-> TRUE, files |-> Put(fs, temp.path, CardFile(SubSeq(pairs, 1, k)))]
        ELSE IF stage = "replace" \/ ~CanCreate(ds, final)
        THEN [err |-> TRUE, files |-> Put(fs, temp.path, CardFile(pairs))]
        ELSE [err |-> FALSE,
              files |-> Put(Remove(fs, temp.path), final.path, CardFile(pairs))]

\* lines 279-287: the batches from b on are written in order, until one fails;
\* processed is the counter of line 279, the numbers labelled so far
RECURSIVE WriteFrom(_, _, _, _, _, _, _, _, _)
WriteFrom(ds, fs, dir, plan, b, contact_name, processed, pad, fail) ==
    IF b > Len(plan) THEN [err |-> FALSE, files |-> fs]
    ELSE LET w == write_vcard_batch(ds, fs, dir, plan[b].target,
                     Pairs(contact_name, plan[b].batch, processed, pad),
                     IF fail.b = b THEN fail.stage ELSE "none", fail.k)
         IN  IF w.err THEN w
             ELSE WriteFrom(ds, w.files, dir, plan, b + 1, contact_name,
                            processed + Len(plan[b].batch), pad, fail)

(***************************************************************************)
(* Part 4: the handlers                                                    *)
(*                                                                         *)
(* A handler runs without interruption up to an await of a Bot API call    *)
(* (reply, edit_text, answer_document, get_file, download_file), where     *)
(* other handlers, of the same user too, may run; the awaits of the        *)
(* MemoryStorage of line 139 do not suspend.  A Bot API call may fail, and *)
(* the failure is modelled wherever it changes what the handler does next. *)
(***************************************************************************)

VARIABLES
    fsm_state,  \* user -> "none" or the name of an UploadStates state
    fsm_data,   \* user -> the FSM data dict; a key holds <<>> (absent) or <<value>>
    dirs,       \* the directories below SESSIONS_DIR
    files,      \* path -> content, for the files below SESSIONS_DIR
    up,         \* user -> the handle_document call suspended at lines 177-178
    kf,         \* user -> the cmd_konfirmasi call suspended at line 200
    run,        \* user -> the process_inputs call suspended at an await
    reply,      \* <<user, what the last step sent to that user>>
    mode,       \* "conc": a user's events are handled as they come;
                \* "seq": only when no handler of that user is suspended
    fmt,        \* the line under test of the format_number specification
    pl          \* the plan_outputs call of the planning specification

vars == <<fsm_state, fsm_data, dirs, files, up, kf, run, reply, mode, fmt, pl>>

MaxUploads == 2

MaxSuspended == 1

L_local == <<"0", "8", "1", "2", "3", "4", "5", "6", "7">>

L_intl == <<"+", "6", "2", "8", "1", "2", "3", "4", "5", "6", "7">>

L_other == <<"+", "4", "4", "1", "2", "3", "4", "5", "6", "7", "8">>

L_bad == <<"a", "b", "c">>

\* doc.file_name, doc.mime_type and the bytes of the uploads a user may send
PlainDocs ==
    { [file_name |-> <<"a", ".", "t", "x", "t">>, mime_type |-> "text/plain",
       lines |-> <<L_local, L_bad, L_intl, L_other>>],
      [file_name |-> <<"b", ".", "t", "x", "t">>, mime_type |-> "text/plain",
       lines |-> <<L_bad>>],
      [file_name |-> <<"n", ".", "d", "a", "t">>, mime_type |-> "text/plain",
       lines |-> <<L_other>>],
      [file_name |-> <<"p", ".", "p", "d", "f">>, mime_type |-> "application/pdf",
       lines |-> <<>>] }

\* an upload whose file name leads into the input directory of another user
PathDocs(u) ==
    { [file_name |-> <<".", ".", "/", ".", ".", "/", Other(u), "/", "i", "n", "/",
                       "z", ".", "t", "x", "t">>,
       mime_type |-> "text/plain", lines |-> <<L_other>>] }

\* msg.text of the text messages a user may send in each state
ContactTexts == {<<>>, <<" ">>, <<"K">>}

PlainBases == {<<>>, <<"o">>}

\* an output base name that leads into the output directory of another user
PathBases(u) ==
    {<<".", ".", "/", ".", ".", "/", Other(u), "/", "o", "u", "t", "/", "o">>}

PerFileTexts == {<<"x">>, <<"0">>} \cup {Str(n) : n \in 1..MaxPerFile}

\* a message: a text, or a document (whose msg.text is None)
TextMsg(t) == [kind |-> "text", text |-> t]

DocMsg == [kind |-> "document", text |-> <<>>]

\* msg.text as it would be read without strip()
MsgTextRaw(msg) == msg.text

\* (msg.text or "").strip()
MsgText(msg) == Strip(msg.text)

Absent == <<>>

EmptyData == [uploaded_files |-> Absent, contact_name |-> Absent, base_file |-> Absent]

\* data.get("uploaded_files", [])
Uploaded(data) == IF data.uploaded_files = Absent THEN <<>> ELSE data.uploaded_files[1]

IdleUp == [pc |-> "idle", file_name |-> <<>>, lines |-> <<>>]

\* The locals of a process_inputs call.  planned (the plan), sent (the files
\* that went out) and cause (why the except block was entered: "absent" no
\* source file, "missing" a directory or file of the session is gone, "storage" a
\* write failed, "api" a Bot API call raised) are kept for the properties.
IdleRun ==
    [pc |-> "idle", per_file |-> 0, contact_name |-> <<>>, base_file_name |-> <<>>,
     vcf_files |-> <<>>, si |-> 0, planned |-> <<>>, sent |-> <<>>, cause |-> "none"]

NoFmt == [pc |-> "off", raw |-> <<>>, out |-> <<>>, again |-> <<>>]

NoPlan == [pc |-> "off", per_file |-> 0, plan |-> <<>>, total |-> 0]

\* the handlers of user u that are suspended at an await
Suspended(u) ==
    (IF up[u].pc # "idle" THEN 1 ELSE 0) + (IF kf[u] # "idle" THEN 1 ELSE 0)
        + (IF run[u].pc # "idle" THEN 1 ELSE 0)

Busy(u) == Suspended(u) > 0

\* a handler of user u may reach an await: the model keeps at most MaxSuspended
\* handlers of one user suspended at a time
MaySuspend(u) == Suspended(u) < MaxSuspended

\* the transport hands the next event of user u to its handler
Accept(u) == mode = "conc" \/ ~Busy(u)

InitSessions ==
    /\ fsm_state = [u \in Users |-> "none"]
    /\ fsm_data = [u \in Users |-> EmptyData]
    /\ dirs = {}
    /\ files = << >>
    /\ up = [u \in Users |-> IdleUp]
    /\ kf = [u \in Users |-> "idle"]
    /\ run = [u \in Users |-> IdleRun]
    /\ reply = <<"A", "nothing">>

\* clear_session followed by state.clear(): lines 208-209, 274-275, 304-305
TearDown(u) ==
    /\ dirs' = RmDirs(dirs, u)
    /\ files' = RmFiles(files, u)
    /\ fsm_state' = [fsm_state EXCEPT ![u] = "none"]
    /\ fsm_data' = [fsm_data EXCEPT ![u] = EmptyData]

\* lines 155-164
start_cmd(u) ==
    /\ Accept(u)
    /\ dirs' = session_paths(RmDirs(dirs, u), u)
    /\ files' = RmFiles(files, u)
    /\ fsm_state' = [fsm_state EXCEPT ![u] = "collecting"]
    /\ fsm_data' = [fsm_data EXCEPT ![u].uploaded_files = << <<>> >>]
    /\ reply' = <<u, "welcome">>
    /\ UNCHANGED <<up, kf, run, mode, fmt, pl>>

\* line 169
AllowedType(doc) ==
    EndsWith(Lower(doc.file_name), <<".", "t", "x", "t">>) \/ doc.mime_type = "text/plain"

\* lines 166-178: up to the await of the download
handle_document(u, doc) ==
    /\ Accept(u)
    /\ fsm_state[u] = "collecting"
    /\ up[u].pc = "idle"
    /\ MaySuspend(u)
    /\ Len(Uploaded(fsm_data[u])) < MaxUploads
    /\ IF ~AllowedType(doc)
       THEN /\ reply' = <<u, "only_txt">>
            /\ UNCHANGED <<dirs, up>>
       ELSE /\ dirs' = session_paths(dirs, u)
            /\ up' = [up EXCEPT ![u] = [pc |-> "download", file_name |-> doc.file_name,
                                        lines |-> doc.lines]]
            /\ reply' = <<u, "nothing">>
    /\ UNCHANGED <<fsm_state, fsm_data, files, kf, run, mode, fmt, pl>>

\* lines 178-189: the download has written dest; the name joins the list
download_done(u) ==
    /\ up[u].pc = "download"
    /\ LET dest == Resolve(dirs, InDir(u), up[u].file_name)
       IN  /\ CanCreate(dirs, dest)
           /\ files' = Put(files, dest.path, TextFile(up[u].lines))
    /\ fsm_data' = [fsm_data EXCEPT ![u].uploaded_files =
                        <<Append(Uploaded(fsm_data[u]), up[u].file_name)>>]
    /\ up' = [up EXCEPT ![u] = IdleUp]
    /\ reply' = <<u, "saved">>
    /\ UNCHANGED <<fsm_state, dirs, kf, run, mode, fmt, pl>>

\* line 178 raises (the transport fails, with or without a partial file left at
\* dest, or dest cannot be created): nothing catches it, the handler ends there
download_failed(u, partial) ==
    /\ up[u].pc = "download"
    /\ LET dest == Resolve(dirs, InDir(u), up[u].file_name)
       IN  IF CanCreate(dirs, dest) /\ partial
           THEN files' = Put(files, dest.path,
                             TextFile(SubSeq(up[u].lines, 1, Len(up[u].lines) \div 2)))
           ELSE files' = files
    /\ up' = [up EXCEPT ![u] = IdleUp]
    /\ reply' = <<u, "raise">>
    /\ UNCHANGED <<fsm_state, fsm_data, dirs, kf, run, mode, fmt, pl>>

\* cmd_konfirmasi as it would be without the check of lines 195-197
cmd_konfirmasi_unchecked(u) ==
    /\ Accept(u)
    /\ kf[u] = "idle"
    /\ MaySuspend(u)
    /\ reply' = <<u, "nothing">>
    /\ kf' = [kf EXCEPT ![u] = "reply"]
    /\ UNCHANGED <<fsm_state, fsm_data, dirs, files, up, run, mode, fmt, pl>>

\* lines 191-203: up to the await of the reply
cmd_konfirmasi(u) ==
    /\ Accept(u)
    /\ kf[u] = "idle"
    /\ MaySuspend(u)
    /\ IF Uploaded(fsm_data[u]) = <<>>
       THEN reply' = <<u, "no_files">> /\ kf' = kf
       ELSE reply' = <<u, "nothing">> /\ kf' = [kf EXCEPT ![u] = "reply"]
    /\ UNCHANGED <<fsm_state, fsm_data, dirs, files, up, run, mode, fmt, pl>>

\* line 204, after the reply went out
konfirmasi_replied(u) ==
    /\ kf[u] = "reply"
    /\ kf' = [kf EXCEPT ![u] = "idle"]
    /\ fsm_state' = [fsm_state EXCEPT ![u] = "ask_contact"]
    /\ reply' = <<u, "ask_contact">>
    /\ UNCHANGED <<fsm_data, dirs, files, up, run, mode, fmt, pl>>

\* the reply of line 200 raises
konfirmasi_failed(u) ==
    /\ kf[u] = "reply"
    /\ kf' = [kf EXCEPT ![u] = "idle"]
    /\ reply' = <<u, "raise">>
    /\ UNCHANGED <<fsm_state, fsm_data, dirs, files, up, run, mode, fmt, pl>>

\* lines 206-210
hapus_cache_cmd(u) ==
    /\ Accept(u)
    /\ TearDown(u)
    /\ reply' = <<u, "cache_cleared">>
    /\ UNCHANGED <<up, kf, run, mode, fmt, pl>>

\* hapus_semua_cache_cmd as it would be without the check of lines 214-216
purge_unchecked(u) ==
    /\ Accept(u)
    /\ dirs' = {}
    /\ files' = [p \in {q \in DOMAIN files : <<q[1]>> \notin dirs} |-> files[p]]
    /\ reply' = <<u, "all_cleared">>
    /\ UNCHANGED <<fsm_state, fsm_data, up, kf, run, mode, fmt, pl>>

\* lines 212-224
hapus_semua_cache_cmd(u) ==
    /\ Accept(u)
    /\ IF u \notin ADMIN_IDS
       THEN /\ reply' = <<u, "no_permission">>
            /\ UNCHANGED <<dirs, files>>
       ELSE /\ dirs' = {}
            /\ files' = [p \in {q \in DOMAIN files : <<q[1]>> \notin dirs} |-> files[p]]
            /\ reply' = <<u, "all_cleared">>
    /\ UNCHANGED <<fsm_state, fsm_data, up, kf, run, mode, fmt, pl>>

\* lines 226-234
ask_outbase(u, msg) ==
    /\ Accept(u)
    /\ fsm_state[u] = "ask_contact"
    /\ IF MsgText(msg) = <<>>
       THEN /\ reply' = <<u, "contact_empty">>
            /\ UNCHANGED <<fsm_state, fsm_data>>
       ELSE /\ fsm_data' = [fsm_data EXCEPT ![u].contact_name = <<MsgText(msg)>>]
            /\ fsm_state' = [fsm_state EXCEPT ![u] = "ask_outbase"]
            /\ reply' = <<u, "ask_outbase">>
    /\ UNCHANGED <<dirs, files, up, kf, run, mode, fmt, pl>>

\* lines 236-244
ask_perfile(u, msg) ==
    /\ Accept(u)
    /\ fsm_state[u] = "ask_outbase"
    /\ IF MsgText(msg) = <<>>
       THEN /\ reply' = <<u, "outbase_empty">>
            /\ UNCHANGED <<fsm_state, fsm_data>>
       ELSE /\ fsm_data' = [fsm_data EXCEPT ![u].base_file = <<MsgText(msg)>>]
            /\ fsm_state' = [fsm_state EXCEPT ![u] = "ask_perfile"]
            /\ reply' = <<u, "ask_perfile">>
    /\ UNCHANGED <<dirs, files, up, kf, run, mode, fmt, pl>>

\* lines 246-262: up to the await of the status reply
process_inputs(u, msg) ==
    /\ Accept(u)
    /\ fsm_state[u] = "ask_perfile"
    /\ run[u].pc = "idle"
    /\ MaySuspend(u)
    /\ LET per_file == ParseInt(msg.text)
           data == fsm_data[u]
       IN  IF per_file = <<>> \/ per_file[1] <= 0
           THEN /\ reply' = <<u, "need_number">>
                /\ UNCHANGED <<fsm_state, dirs, run>>
           ELSE IF data.contact_name = Absent \/ data.base_file = Absent
           THEN /\ reply' = <<u, "raise">>
                /\ UNCHANGED <<fsm_state, dirs, run>>
           ELSE /\ dirs' = session_paths(dirs, u)
                /\ fsm_state' = [fsm_state EXCEPT ![u] = "processing"]
                /\ run' = [run EXCEPT ![u] =
                              [IdleRun EXCEPT !.pc = "status",
                                              !.per_file = per_file[1],
                                              !.contact_name = data.contact_name[1],
                                              !.base_file_name = data.base_file[1]]]
                /\ reply' = <<u, "nothing">>
    /\ UNCHANGED <<fsm_data, files, up, kf, mode, fmt, pl>>

\* the status reply of line 262 raises: the try of line 264 is not entered
status_failed(u) ==
    /\ run[u].pc = "status"
    /\ run' = [run EXCEPT ![u] = IdleRun]
    /\ reply' = <<u, "raise">>
    /\ UNCHANGED <<fsm_state, fsm_data, dirs, files, up, kf, mode, fmt, pl>>

\* The call of process_inputs goes on to the except block of lines 301-302
\* and waits there for edit_text.
ToExcept(r, cause) == [r EXCEPT !.pc = "report", !.cause = cause]

\* lines 290-299 from file i on: fp.open("rb") of the next file, then the await
\* of answer_document; past the last file the try block is left
OpenNext(r, fs, i) ==
    IF i > Len(r.vcf_files) THEN [r EXCEPT !.pc = "finally"]
    ELSE IF r.vcf_files[i] \notin DOMAIN fs THEN ToExcept(r, "missing")
    ELSE [r EXCEPT !.pc = "sending", !.si = i]

\* lines 264-297 after the status reply went out: plan, write, list the output
\* and wait for edit_text
status_sent(u, fail) ==
    /\ run[u].pc = "status"
    /\ LET r == run[u]
           p == plan_outputs(dirs, files, InDir(u), r.base_file_name, r.per_file, OutDir(u))
           w == WriteFrom(dirs, files, OutDir(u), p.plan, 1, r.contact_name, 0,
                          Len(Str(p.total)), fail)
       IN  /\ fail \in FailPoints(p.plan)
           /\ IF p.err
              THEN /\ run' = [run EXCEPT ![u] =
                              ToExcept(r, IF InDir(u) \in dirs THEN "absent" ELSE "missing")]
                   /\ files' = files
              ELSE IF p.total = 0
              THEN /\ run' = [run EXCEPT ![u] = [r EXCEPT !.pc = "novalid"]]
                   /\ files' = files
              ELSE /\ files' = w.files
                   /\ run' = [run EXCEPT ![u] =
                        IF w.err THEN ToExcept([r EXCEPT !.planned = p.plan],
                                   IF OutDir(u) \in dirs THEN "storage" ELSE "missing")
                        ELSE [r EXCEPT !.pc = "summary", !.planned = p.plan,
                                       !.vcf_files = SortedPaths(Glob(dirs, w.files, OutDir(u),
                                                            <<".", "v", "c", "f">>))]]
    /\ reply' = <<u, "nothing">>
    /\ UNCHANGED <<fsm_state, fsm_data, dirs, up, kf, mode, fmt, pl>>

\* the finally block as it would be without clear_session
FinallyKeepsFiles(u) ==
    /\ fsm_state' = [fsm_state EXCEPT ![u] = "none"]
    /\ fsm_data' = [fsm_data EXCEPT ![u] = EmptyData]
    /\ run' = [run EXCEPT ![u] = IdleRun]
    /\ UNCHANGED <<dirs, files>>

\* the finally block of lines 303-305 ends the call
Finally(u) ==
    /\ TearDown(u)
    /\ run' = [run EXCEPT ![u] = IdleRun]

\* lines 273-276, then the finally block
novalid_sent(u) ==
    /\ run[u].pc = "novalid"
    /\ Finally(u)
    /\ reply' = <<u, "no_valid_numbers">>
    /\ UNCHANGED <<up, kf, mode, fmt, pl>>

\* The Bot API call the process_inputs call waits for inside the try block
\* raises: line 301 catches it.
ApiFailed(u) ==
    /\ run' = [run EXCEPT ![u] = ToExcept(run[u], "api")]
    /\ reply' = <<u, "nothing">>
    /\ UNCHANGED <<fsm_state, fsm_data, dirs, files, up, kf, mode, fmt, pl>>

\* line 273 raises
novalid_failed(u) == run[u].pc = "novalid" /\ ApiFailed(u)

\* line 297 raises
summary_failed(u) == run[u].pc = "summary" /\ ApiFailed(u)

\* line 299 raises
doc_failed(u) == run[u].pc = "sending" /\ ApiFailed(u)

\* The call resumes with r as its locals: it ends through the finally block, or
\* is suspended again.
Resume(u, r, said) ==
    /\ IF r.pc = "finally"
       THEN Finally(u)
       ELSE /\ run' = [run EXCEPT ![u] = r]
            /\ UNCHANGED <<fsm_state, fsm_data, dirs, files>>
    /\ reply' = <<u, said>>
    /\ UNCHANGED <<up, kf, mode, fmt, pl>>

\* line 297 returned: the loop of lines 298-299 starts
summary_sent(u) ==
    /\ run[u].pc = "summary"
    /\ Resume(u, OpenNext(run[u], files, 1), "summary")

\* line 299 returned for file si
doc_sent(u) ==
    /\ run[u].pc = "sending"
    /\ LET r == run[u]
           sent == [r EXCEPT !.sent = Append(r.sent, r.vcf_files[r.si])]
       IN  Resume(u, OpenNext(sent, files, r.si + 1), "document")

\* line 302 returned, then the finally block
error_sent(u) ==
    /\ run[u].pc = "report"
    /\ Finally(u)
    /\ reply' = <<u, "error">>
    /\ UNCHANGED <<up, kf, mode, fmt, pl>>

\* line 302 raises; the finally block runs and the exception leaves the handler
error_failed(u) ==
    /\ run[u].pc = "report"
    /\ Finally(u)
    /\ reply' = <<u, "raise">>
    /\ UNCHANGED <<up, kf, mode, fmt, pl>>

\* the commands every user sends
Command(u) ==
    \/ start_cmd(u)
    \/ hapus_cache_cmd(u)
    \/ hapus_semua_cache_cmd(u)

\* the uploads, /konfirmasi and the answers of a user who holds the conversation,
\* with the uploads drawn from docs and the output base names from bases
Conversation(u, docs, bases) ==
    \/ \E doc \in docs : handle_document(u, doc)
    \/ cmd_konfirmasi(u)
    \/ \E t \in ContactTexts : ask_outbase(u, TextMsg(t))
    \/ ask_outbase(u, DocMsg)
    \/ \E t \in bases : ask_perfile(u, TextMsg(t))
    \/ ask_perfile(u, DocMsg)
    \/ \E t \in PerFileTexts : process_inputs(u, TextMsg(t))
    \/ process_inputs(u, DocMsg)

\* a suspended handler goes on, its Bot API call having returned
Returned(u) ==
    \/ download_done(u)
    \/ konfirmasi_replied(u)
    \/ status_sent(u, NoFail)
    \/ novalid_sent(u)
    \/ summary_sent(u)
    \/ doc_sent(u)
    \/ error_sent(u)

\* a suspended handler goes on, its Bot API call having raised, or storage fails
\* during the writes of a run
Failed(u) ==
    \/ \E partial \in BOOLEAN : download_failed(u, partial)
    \/ konfirmasi_failed(u)
    \/ status_failed(u)
    \/ \E fail \in AllFailPoints \ {NoFail} : status_sent(u, fail)
    \/ novalid_failed(u)
    \/ summary_failed(u)
    \/ doc_failed(u)
    \/ error_failed(u)

\* Every user sends commands; the users of Uploaders also hold the conversation.
Next ==
    \/ \E u \in Users : Command(u)
    \/ \E u \in Uploaders : Conversation(u, PlainDocs, PlainBases) \/ Returned(u) \/ Failed(u)

\* one event at a time per user, as section 5 of the specification expects of
\* the transport; events of different users interleave
Init == InitSessions /\ mode = "seq" /\ fmt = NoFmt /\ pl = NoPlan

Spec == Init /\ [][Next]_vars

\* a user's events are handled as they come, also while a handler of that user is
\* suspended
InitConc == InitSessions /\ mode = "conc" /\ fmt = NoFmt /\ pl = NoPlan

SpecConc == InitConc /\ [][Next]_vars

\* file names and base names with "../" in them, and no failure of the Bot API
\* or of storage
NextPaths ==
    \/ \E u \in Users : Command(u)
    \/ \E u \in Uploaders :
          \/ Conversation(u, PlainDocs \cup PathDocs(u), PlainBases \cup PathBases(u))
          \/ Returned(u)

SpecPaths == Init /\ [][NextPaths]_vars

(***************************************************************************)
(* Part 5: format_number on its own                                        *)
(***************************************************************************)

MaxTail == 12

TailDigits == <<"1", "2", "3", "4", "5", "6", "7", "8", "9", "0", "1", "2", "3", "4">>

\* the digits a number may start with: the codes of the table, a code that is
\* not in it, and a local number
CodeDigits ==
    {From(patterns[i].code, 2) : i \in 1..Len(patterns)} \cup {<<"4", "4">>, <<"8">>}

\* the lines under test: text before, a prefix, leading digits, a separator or
\* none, and up to MaxTail more digits
FmtInputs ==
    {lead \o prefix \o code \o sep \o SubSeq(TailDigits, 1, n) :
        lead \in {<<>>, <<" ">>, <<"x", " ">>},
        prefix \in {<<>>, <<"+">>, <<"0">>, <<"0", "0">>},
        code \in CodeDigits,
        sep \in {<<>>, <<" ">>, <<"-">>},
        n \in 0..MaxTail}

InitFmt ==
    /\ InitSessions
    /\ mode = "seq"
    /\ pl = NoPlan
    /\ fmt \in {[pc |-> "raw", raw |-> x, out |-> <<>>, again |-> <<>>] : x \in FmtInputs}

\* n = format_number(line), line 108
FmtNormalize ==
    /\ fmt.pc = "raw"
    /\ fmt' = [fmt EXCEPT !.pc = "out", !.out = format_number(fmt.raw)]
    /\ UNCHANGED <<fsm_state, fsm_data, dirs, files, up, kf, run, reply, mode, pl>>

\* format_number applied to a number it returned
FmtAgain ==
    /\ fmt.pc = "out"
    /\ fmt.out # None
    /\ fmt' = [fmt EXCEPT !.pc = "again", !.again = format_number(fmt.out)]
    /\ UNCHANGED <<fsm_state, fsm_data, dirs, files, up, kf, run, reply, mode, pl>>

NextFmt == FmtNormalize \/ FmtAgain

SpecFmt == InitFmt /\ [][NextFmt]_vars


(***************************************************************************)
(* Part 6: plan_outputs and the write loop on their own                    *)
(***************************************************************************)

MaxLines == 3

MaxNumbers == 11

MaxCapacity == 3

\* the lines of the example of the specification, written in groups of digits
E_local1 == <<"0", "8", "1", "1", " ", "1", "1", "1", " ", "1", "1", "1", "1">>

E_intl1 == <<"+", "6", "2", "8", "1", "1", " ", "1", "1", "1", " ", "1", "1", "1", "1">>

E_local2 == <<"0", "8", "1", "1", " ", "2", "2", "2", " ", "2", "2", "2", "2">>

\* the same numbers written without spaces
J_local1 == <<"0", "8", "1", "1", "1", "1", "1", "1", "1", "1", "1">>

J_intl1 == <<"+", "6", "2", "8", "1", "1", "1", "1", "1", "1", "1", "1", "1">>

J_local2 == <<"0", "8", "1", "1", "2", "2", "2", "2", "2", "2", "2">>

PlanLines == {E_local1, E_intl1, E_local2, J_local1, J_intl1, J_local2, L_bad}

\* n lines with n different numbers
ManyLines(n) ==
    [i \in 1..n |-> <<"+", "4", "4", "1", "2", "3", "4", "5", "6">> \o ZFill(Str(i), 2)]

SeqsUpTo(S, n) == UNION {[1..k -> S] : k \in 0..n}

\* the contents of a.txt and b.txt in the input directory: up to MaxLines lines
\* spread over both, or up to MaxNumbers different numbers in a.txt
PlanInputs ==
    {ab \in SeqsUpTo(PlanLines, MaxLines) \X SeqsUpTo(PlanLines, MaxLines) :
        Len(ab[1]) + Len(ab[2]) <= MaxLines}
    \cup {<<ManyLines(n), <<>>>> : n \in (MaxLines + 1)..MaxNumbers}

PlanUser == "A"

PlanContact == <<"K">>

PlanBase == <<"o">>

SourceA == InDir(PlanUser) \o << <<"a", ".", "t", "x", "t">> >>

SourceB == InDir(PlanUser) \o << <<"b", ".", "t", "x", "t">> >>

\* a session whose input directory holds the two uploads, at the capacity prompt
InitPlan ==
    /\ fsm_state = [u \in Users |-> IF u = PlanUser THEN "ask_perfile" ELSE "none"]
    /\ fsm_data = [u \in Users |-> EmptyData]
    /\ dirs = session_paths({}, PlanUser)
    /\ files \in {Put(Put(<< >>, SourceA, TextFile(ab[1])), SourceB, TextFile(ab[2])) :
                     ab \in PlanInputs}
    /\ up = [u \in Users |-> IdleUp]
    /\ kf = [u \in Users |-> "idle"]
    /\ run = [u \in Users |-> IdleRun]
    /\ reply = <<PlanUser, "nothing">>
    /\ mode = "seq"
    /\ fmt = NoFmt
    /\ pl = [NoPlan EXCEPT !.pc = "input"]

\* lines 265-270: plan_outputs with the capacity the user gave
PlanOutputs(per_file) ==
    /\ pl.pc = "input"
    /\ LET p == plan_outputs(dirs, files, InDir(PlanUser), PlanBase, per_file,
                             OutDir(PlanUser))
       IN  pl' = [pc |-> "planned", per_file |-> per_file, plan |-> p.plan,
                  total |-> p.total]
    /\ UNCHANGED <<fsm_state, fsm_data, dirs, files, up, kf, run, reply, mode, fmt>>

\* lines 279-287: the batches of the plan are written
WriteBatches ==
    /\ pl.pc = "planned"
    /\ pl.total > 0
    /\ files' = WriteFrom(dirs, files, OutDir(PlanUser), pl.plan, 1, PlanContact, 0,
                          Len(Str(pl.total)), NoFail).files
    /\ pl' = [pl EXCEPT !.pc = "written"]
    /\ UNCHANGED <<fsm_state, fsm_data, dirs, up, kf, run, reply, mode, fmt>>

NextPlan == (\E per_file \in 1..MaxCapacity : PlanOutputs(per_file)) \/ WriteBatches

SpecPlan == InitPlan /\ [][NextPlan]_vars

(***************************************************************************)
(* Part 7: the properties                                                  *)
(***************************************************************************)

\* the session of user u is gone: no state, no data, no directory, no file
IsTornDown(u) ==
    /\ fsm_state[u] = "none"
    /\ fsm_data[u] = EmptyData
    /\ \A d \in dirs : ~IsPrefix(UserDir(u), d)
    /\ \A p \in DOMAIN files : ~IsPrefix(UserDir(u), p)

\* this step ends the process_inputs call of user u
RunEnds(u) == run[u].pc # "idle" /\ run'[u].pc = "idle"

\* This step handles an event that the state of user u does not accept: a
\* document outside collecting (it reaches the text handler of the state), or
\* /konfirmasi outside collecting (line 204 is where it acts).
InvalidEvent(u) ==
    \/ ask_outbase(u, DocMsg)
    \/ ask_perfile(u, DocMsg)
    \/ process_inputs(u, DocMsg)
    \/ fsm_state[u] # "collecting" /\ (cmd_konfirmasi(u) \/ konfirmasi_replied(u))

\* C1: an event that is not valid for the current state of a user (a document
\* outside Collecting, /konfirmasi outside Collecting) leaves the state and the
\* session data of that user unchanged.
C1_InvalidEventChangesNothing ==
    [][\A u \in Users :
          InvalidEvent(u) => fsm_state'[u] = fsm_state[u] /\ fsm_data'[u] = fsm_data[u]]_vars

\* C2: Processing is always followed by teardown.  As a property of states: a
\* session is in Processing only while its process_inputs call is still under
\* way, so that the finally block is still ahead; a session in Processing whose
\* call has ended stays there for good.
C2_ProcessingIsTornDown ==
    \A u \in Users : fsm_state[u] = "processing" => run[u].pc # "idle"

\* C3: format_number applied to a number it returned returns that number.
C3_Idempotent == fmt.pc = "again" => fmt.again = fmt.out

\* C4: the digits of the number format_number returns are, in order, the digits
\* of the token after the prefix conversion.
C4_DigitsKept ==
    fmt.pc = "out" /\ fmt.out # None
        => OnlyDigits(fmt.out) = OnlyDigits(ConvertedToken(fmt.raw))

\* C5: the purge of an admin never acts while a process_inputs call of any user
\* is under way (state set to Processing, teardown not yet done).
C5_PurgeExcludesProcessing ==
    [][\A a \in Users :
          a \in ADMIN_IDS /\ hapus_semua_cache_cmd(a) => \A u \in Users : run[u].pc = "idle"]_vars

\* C6: /hapus_cache clears the session of the user at once, in any state; and a
\* process_inputs call that finds a directory or file of its session gone ends
\* through the except block (the error is reported, unless edit_text itself
\* raises) and the finally block, leaving no state, data, directory or file of
\* that user.
C6_ResetIsSafe ==
    [][\A u \in Users :
          /\ hapus_cache_cmd(u) => IsTornDown(u)'
          /\ RunEnds(u) /\ run[u].cause = "missing"
                => /\ run[u].pc = "report"
                   /\ error_sent(u) \/ error_failed(u)
                   /\ IsTornDown(u)']_vars

\* C6, witness: the user has reset the session while the call was suspended, and
\* the call has found its directory gone and waits in the except block.
C6_Witness ==
    \E u \in Users :
        run[u].pc = "report" /\ run[u].cause = "missing" /\ fsm_state[u] = "none"

\* the directories and files below the directory of user u
Subtree(ds, fs, u) ==
    <<{d \in ds : IsPrefix(UserDir(u), d)},
      [p \in {q \in DOMAIN fs : IsPrefix(UserDir(u), q)} |-> fs[p]]>>

\* this step handles an event of user a, or resumes a handler of user a
HandledFor(a) ==
    \/ Command(a)
    \/ Conversation(a, PlainDocs \cup PathDocs(a), PlainBases \cup PathBases(a))
    \/ Returned(a)

\* C7: no step taken for user a, other than the purge of an admin, changes a
\* directory, a file or the session record of another user b.
C7_UserIsolation ==
    [][\A a \in Users :
          HandledFor(a) /\ ~(a \in ADMIN_IDS /\ hapus_semua_cache_cmd(a))
              => \A b \in Users \ {a} :
                    /\ Subtree(dirs', files', b) = Subtree(dirs, files, b)
                    /\ fsm_state'[b] = fsm_state[b]
                    /\ fsm_data'[b] = fsm_data[b]]_vars

\* the records batch b of the plan of call r gets
PlannedPairs(r, b) ==
    Pairs(r.contact_name, r.planned[b].batch, (b - 1) * r.per_file,
          Len(Str(NumbersOf(r.planned))))

\* C8: a file at a final path (a name ending in .vcf in an output directory)
\* holds every record of the batch planned for that path; what a failed or
\* interrupted write leaves is under the .tmp name, and no .tmp name is among the
\* files selected for sending.
C8_AtomicWrite ==
    \A u \in Users :
        /\ \A p \in Glob(dirs, files, OutDir(u), <<".", "v", "c", "f">>) :
              \E b \in 1..Len(run[u].planned) :
                  /\ p[Len(p)] = run[u].planned[b].target
                  /\ files[p] = CardFile(PlannedPairs(run[u], b))
        /\ \A i \in 1..Len(run[u].vcf_files) :
              ~EndsWith(run[u].vcf_files[i][3], <<".", "t", "m", "p">>)

\* C8, witness: a write has failed after some but not all records of a batch;
\* the temp file holds the part written.
C8_Witness ==
    \E u \in Users :
        /\ run[u].pc = "report" /\ run[u].cause = "storage"
        /\ \E p \in Glob(dirs, files, OutDir(u), <<".", "t", "m", "p">>) :
              \E b \in 1..Len(run[u].planned) :
                  /\ p[Len(p)] = run[u].planned[b].target \o <<".", "t", "m", "p">>
                  /\ Len(files[p].recs) > 0
                  /\ Len(files[p].recs) < Len(run[u].planned[b].batch)

\* a fresh session: Collecting, an empty list of uploads and nothing else in the
\* data, both directories there and empty
IsFresh(u) ==
    /\ fsm_state[u] = "collecting"
    /\ fsm_data[u] = [EmptyData EXCEPT !.uploaded_files = << <<>> >>]
    /\ {InDir(u), OutDir(u)} \subseteq dirs
    /\ \A p \in DOMAIN files : ~IsPrefix(UserDir(u), p)

\* C9: /start in any state leaves exactly a fresh session.
C9_StartLeavesFreshSession ==
    [][\A u \in Users : start_cmd(u) => IsFresh(u)']_vars

\* this step ends a handler of user u that met a storage failure: a download
\* that raised, or a call of process_inputs whose write or replace failed
StorageFailureEnds(u) ==
    \/ \E partial \in BOOLEAN : download_failed(u, partial)
    \/ RunEnds(u) /\ run[u].cause = "storage"

\* C10: a handler that met a storage failure ends with the session torn down,
\* no temp file left, and a failure message sent (unless sending it raised).
C10_StorageFailureTearsDown ==
    [][\A u \in Users :
          StorageFailureEnds(u)
              => IsTornDown(u)' /\ (reply' = <<u, "error">> \/ error_failed(u))]_vars

\* the files the process_inputs call of user u has sent when this step ends it
SentAtEnd(u) ==
    IF doc_sent(u) THEN Append(run[u].sent, run[u].vcf_files[run[u].si]) ELSE run[u].sent

\* C11: a process_inputs call that ends in an error (through the except block)
\* has sent none of its contact-card files; and every call ends with either no
\* file sent or one file sent for each planned batch.
C11_NoPartialOutput ==
    [][\A u \in Users :
          RunEnds(u)
              => /\ run[u].pc = "report" => SentAtEnd(u) = <<>>
                 /\ \/ SentAtEnd(u) = <<>>
                    \/ Len(SentAtEnd(u)) = Len(run[u].planned)]_vars

\* the input directory of user u holds no file the planner reads
NoSourceFile(u) == list_txt_files(dirs, files, InDir(u)) = <<>>

\* the input directory of user u holds source files, and format_number rejects
\* every line of them
AllRejected(u) ==
    /\ ~NoSourceFile(u)
    /\ LET lines == AllLines(files, list_txt_files(dirs, files, InDir(u)))
       IN  \A i \in 1..Len(lines) : format_number(lines[i]) = None

\* the process_inputs call of user u is in the except block because planning
\* found no source file
InputAbsent(u) ==
    run[u].pc = "report" /\ run[u].cause \in {"absent", "missing"} /\ run[u].planned = <<>>

\* C12: planning without a source file raises, and the call ends with the error
\* report; planning over source files whose lines are all rejected returns an
\* empty plan, and the call ends with the report "no valid numbers" (unless the
\* Bot API call that carries a report itself raises).  Either way no
\* contact-card file is written or sent, and the session is torn down.
C12_AbsentAndNoValidDistinct ==
    [][\A u \in Users :
          /\ (\E fail \in AllFailPoints : status_sent(u, fail))
                => /\ NoSourceFile(u) => InputAbsent(u)' /\ files' = files
                   /\ AllRejected(u) => run'[u].pc = "novalid" /\ files' = files
          /\ RunEnds(u) /\ (InputAbsent(u) \/ run[u].pc = "novalid")
                => /\ IF InputAbsent(u) THEN reply' \in {<<u, "error">>, <<u, "raise">>}
                                        ELSE reply' = <<u, "no_valid_numbers">>
                   /\ run[u].sent = <<>>
                   /\ Glob(dirs, files, OutDir(u), <<".", "v", "c", "f">>) = {}
                   /\ IsTornDown(u)']_vars

\* C12, witness: the call is in the except block for want of a source file,
\* although a file was uploaded (under a name that is not *.txt).
C12_Witness ==
    \E u \in Users :
        /\ InputAbsent(u)
        /\ Uploaded(fsm_data[u]) # <<>>
        /\ \E p \in DOMAIN files : Parent(p) = InDir(u)

\* a message without text, or whose text is white space only
EmptyText(msg) ==
    msg.kind = "document" \/ \A i \in 1..Len(msg.text) : msg.text[i] \in Whitespace

\* the answers to the capacity prompt that are no positive number
BadPerFileMsgs == {TextMsg(<<"x">>), TextMsg(<<"0">>), DocMsg}

\* an upload that is neither named *.txt nor declared text/plain
DisallowedDoc(doc) ==
    doc.mime_type # "text/plain" /\ ~EndsWith(doc.file_name, <<".", "t", "x", "t">>)

\* this step leaves the session of every user and every handler as they were,
\* and sends user u the text said
RePrompt(u, said) ==
    /\ reply' = <<u, said>>
    /\ UNCHANGED <<fsm_state, fsm_data, dirs, files, up, kf, run>>

\* C13: an empty answer to the contact-name or base-name prompt, an answer to
\* the capacity prompt that is no positive number, and an upload of a disallowed
\* type are each answered with a re-prompt; the state, the session data, the
\* directories and files stay as they were and no process_inputs call starts.
C13_ValidationErrorsRePrompt ==
    [][\A u \in Users :
          /\ \A msg \in {TextMsg(t) : t \in ContactTexts} \cup {DocMsg} :
                EmptyText(msg) /\ ask_outbase(u, msg) => RePrompt(u, "contact_empty")
          /\ \A msg \in {TextMsg(t) : t \in PlainBases} \cup {DocMsg} :
                EmptyText(msg) /\ ask_perfile(u, msg) => RePrompt(u, "outbase_empty")
          /\ \A msg \in BadPerFileMsgs :
                process_inputs(u, msg) => RePrompt(u, "need_number")
          /\ \A doc \in PlainDocs :
                DisallowedDoc(doc) /\ handle_document(u, doc) => RePrompt(u, "only_txt")]_vars

\* C13, witness: the capacity prompt has been repeated for a user whose session
\* holds uploads and both names.
C13_Witness ==
    \E u \in Users :
        /\ reply = <<u, "need_number">>
        /\ fsm_state[u] = "ask_perfile"
        /\ Uploaded(fsm_data[u]) # <<>>
        /\ fsm_data[u].contact_name # Absent /\ fsm_data[u].base_file # Absent

\* C14: /hapus_semua_cache from a user who is not in ADMIN_IDS removes no
\* directory and no file of any user and changes no session record, the
\* caller's own included; the caller is told that permission is missing.
C14_PurgeFailsClosed ==
    [][\A u \in Users \ ADMIN_IDS :
          hapus_semua_cache_cmd(u)
              => /\ UNCHANGED <<dirs, files, fsm_state, fsm_data, up, kf, run>>
                 /\ reply' = <<u, "no_permission">>]_vars

\* C14, witness: the purge of a user without permission has been refused while
\* that user and the admin both have session directories with a file in them.
C14_Witness ==
    \E u \in Users \ ADMIN_IDS :
        /\ reply = <<u, "no_permission">>
        /\ \A v \in Users : InDir(v) \in dirs
        /\ \E p \in DOMAIN files : IsPrefix(UserDir(u), p)

\* the batches of a plan, one after the other
RECURSIVE Flatten(_)
Flatten(plan) == IF plan = <<>> THEN <<>> ELSE Head(plan).batch \o Flatten(Tail(plan))

\* the lines of the source files in file-then-line order, and the canonical
\* numbers of the lines that have one
SourceLines == files[SourceA].lines \o files[SourceB].lines

Canonical == SelectSeq(FormatAll(SourceLines), IsNumber)

\* where x stands first in seq
FirstAt(seq, x) == CHOOSE i \in 1..Len(seq) : seq[i] = x /\ \A j \in 1..(i - 1) : seq[j] # x

\* C15: the numbers handed to batching are the distinct canonical numbers of
\* the lines, each once, in the order of their first occurrence; and the lines
\* "0811 111 1111", "+62811 111 1111", "0811 222 2222" give two numbers.
C15_DedupFirstSeen ==
    pl.pc = "planned"
        => LET out == Flatten(pl.plan)
           IN  /\ {out[i] : i \in 1..Len(out)} = {Canonical[i] : i \in 1..Len(Canonical)}
               /\ \A i, j \in 1..Len(out) :
                     i < j => /\ out[i] # out[j]
                              /\ FirstAt(Canonical, out[i]) < FirstAt(Canonical, out[j])
               /\ SourceLines = <<E_local1, E_intl1, E_local2>> => Len(out) = 2

\* ceil(n / p)
CeilDiv(n, p) == (n + p - 1) \div p

\* C16: a plan over n >= 1 numbers with capacity p has ceil(n / p) batches; all
\* but the last hold p numbers, the last holds 1 to p; together they are the
\* deduplicated sequence; batch i is named "{base} i.vcf", and these are the files
\* the write loop leaves in the output directory.
C16_BatchBoundaries ==
    pl.pc \in {"planned", "written"} /\ pl.total >= 1
        => LET seq == remove_duplicates(Canonical)
               count == CeilDiv(Len(seq), pl.per_file)
           IN  /\ Len(pl.plan) = count
               /\ \A i \in 1..(count - 1) : Len(pl.plan[i].batch) = pl.per_file
               /\ Len(pl.plan[count].batch) \in 1..pl.per_file
               /\ Flatten(pl.plan) = seq
               /\ \A i \in 1..count :
                     pl.plan[i].target = PlanBase \o <<" ">> \o Str(i) \o <<".", "v", "c", "f">>
               /\ pl.pc = "written"
                     => Glob(dirs, files, OutDir(PlanUser), <<".", "v", "c", "f">>)
                            = {OutDir(PlanUser) \o <<pl.plan[i].target>> : i \in 1..count}

\* C16, witness: five numbers planned with capacity 2, in batches of 2, 2 and 1
C16_Witness ==
    /\ pl.pc = "planned" /\ pl.total = 5 /\ pl.per_file = 2
    /\ [i \in 1..Len(pl.plan) |-> Len(pl.plan[i].batch)] = <<2, 2, 1>>

\* the record written for the k-th number of the plan
RecordOf(k) ==
    LET b == ((k - 1) \div pl.per_file) + 1
        j == ((k - 1) % pl.per_file) + 1
    IN  files[OutDir(PlanUser) \o <<pl.plan[b].target>>].recs[j]

\* the part of a label after the contact name and the space
Suffix(fullname) == SubSeq(fullname, Len(PlanContact) + 2, Len(fullname))

\* C17: in the files of one run the k-th number of the deduplicated sequence
\* has the label "{contact name} k", k written in decimal and padded with zeros
\* to the number of digits of the total; so the labels of a run differ pairwise
\* and their suffixes are equally long.
C17_LabelsAcrossRun ==
    pl.pc = "written"
        => LET seq == Flatten(pl.plan)
           IN  \A k \in 1..Len(seq) :
                   LET rec == RecordOf(k)
                   IN  /\ rec.tel = seq[k]
                       /\ SubSeq(rec.fn, 1, Len(PlanContact) + 1) = PlanContact \o <<" ">>
                       /\ Len(Suffix(rec.fn)) = Len(Str(pl.total))
                       /\ \A i \in 1..Len(Suffix(rec.fn)) : IsDigit(Suffix(rec.fn)[i])
                       /\ DigitsValue(Suffix(rec.fn), 0) = k

\* C17, witness: ten or more numbers written in several files; the first number
\* has a padded label, and the first label of the second file goes on counting
C17_Witness ==
    /\ pl.pc = "written" /\ pl.total >= 10 /\ Len(pl.plan) >= 2
    /\ RecordOf(1).fn = PlanContact \o <<" ", "0", "1">>
    /\ RecordOf(pl.per_file + 1).fn = PlanContact \o <<" ">> \o ZFill(Str(pl.per_file + 1), 2)

\* C18: when a process_inputs call ends while the user has started a new
\* session since the call set Processing (the state is again one of a live
\* session), the teardown of the call leaves the state, the data, the
\* directories and the files of that new session as they are.
C18_TeardownScopedToRun ==
    [][\A u \in Users :
          RunEnds(u) /\ fsm_state[u] \notin {"processing", "none"}
              => /\ fsm_state'[u] = fsm_state[u]
                 /\ fsm_data'[u] = fsm_data[u]
                 /\ Subtree(dirs', files', u) = Subtree(dirs, files, u)]_vars

\* C19: for every user with a session, every name in uploaded_files is the
\* name of a file in the input directory of that user that glob("*.txt")
\* selects.
C19_UploadedFilesOnDisk ==
    \A u \in Users :
        fsm_state[u] # "none"
            => \A i \in 1..Len(Uploaded(fsm_data[u])) :
                   LET dest == Resolve(dirs, InDir(u), Uploaded(fsm_data[u])[i])
                   IN  /\ dest.ok
                       /\ dest.path \in Glob(dirs, files, InDir(u), <<".", "t", "x", "t">>)

\* the key of the session data holds a text that is not empty
Stored(v) == v # Absent /\ v[1] # <<>>

\* C20: with one event handled at a time per user, a user in AskContactName
\* or later has uploads in the list, a user in AskOutputBase or later has a
\* contact name stored, and a user in AskPerFileLimit has a base name stored.
C20_ParametersPresent ==
    \A u \in Users :
        /\ fsm_state[u] \in {"ask_contact", "ask_outbase", "ask_perfile", "processing"}
              => Uploaded(fsm_data[u]) # <<>>
        /\ fsm_state[u] \in {"ask_outbase", "ask_perfile", "processing"}
              => Stored(fsm_data[u].contact_name)
        /\ fsm_state[u] = "ask_perfile" => Stored(fsm_data[u].base_file)

\* C20, witness: a user is back at the contact prompt of a session that has
\* been through the later prompts, after a purge has removed the directories.
C20_Witness ==
    \E u \in Users :
        /\ fsm_state[u] = "ask_contact"
        /\ Stored(fsm_data[u].contact_name) /\ Stored(fsm_data[u].base_file)
        /\ InDir(u) \notin dirs

====
